---- MODULE Spec2Model ----
(***************************************************************************)
(* A model of the hypercore feed: the Storage engine (src/storage/mod.rs)  *)
(* with its four byte regions, and Feed::append (src/lib.rs) on top of it. *)
(* Regions are byte sequences; records are written and read at the byte    *)
(* offsets the code computes.                                              *)
(***************************************************************************)
EXTENDS Integers, Sequences, FiniteSets, TLC

VARIABLES
    tree,         \* Storage.tree: the bytes of the Tree region
    data,         \* Storage.data: the bytes of the Data region
    bitfield,     \* Storage.bitfield: the bytes of the Bitfield region
    signatures,   \* Storage.signatures: the bytes of the Signatures region
    opened,       \* a Storage instance has been constructed over the stores
    merkle,       \* Feed.merkle: the accumulator (pending roots, block count)
    nodes,        \* the nodes last handed to Storage (by Feed: those of merkle.next)
    byte_length,  \* Feed.byte_length
    blocks,       \* history: the data of every Feed.append call, in order
    committed,    \* history: number of appends that advanced byte_length
    faulted,      \* history: some byte-store operation of a Feed::append has failed
    hdrWrites,    \* history: header writes per region
    ops,          \* history: number of Storage API calls made directly
    last          \* the last operation, its arguments and its outcome

vars == <<tree, data, bitfield, signatures, opened, merkle, nodes,
          byte_length, blocks, committed, faulted, hdrWrites, ops,
          last>>

----------------------------------------------------------------------------
(* Bounds of the model.                                                    *)

\* longest block (and largest node length) an operation is given
MaxLen == 2
\* number of Feed.append calls in one behaviour
MaxBlocks == 3
\* number of Storage API calls in one behaviour of SpecStorage
MaxOps == 3


----------------------------------------------------------------------------
(* Program constants.                                                      *)

\* offset of the first record of the Tree, Signatures and Bitfield regions
HEADER_OFFSET == 32

\* size of a node record: the literal 40 of get_node and put_node
NodeSize == 40

\* size of a signature record: the literal 64 of put_signature
SigSize == 64

\* size of a digest, the hash part of a node record
HashSize == 32

----------------------------------------------------------------------------
(* Helpers.                                                                *)

Max(a, b) == IF a >= b THEN a ELSE b

Zeros(n) == [k \in 1..n |-> 0]

RECURSIVE SumSeq(_)
SumSeq(s) == IF s = <<>> THEN 0 ELSE s[1] + SumSeq(Tail(s))

Ok(v) == [ok |-> TRUE, val |-> v, err |-> "none"]
Err(e) == [ok |-> FALSE, val |-> <<>>, err |-> e]

----------------------------------------------------------------------------
(* The byte-store capability (random-access-storage): write extends the    *)
(* store, filling any gap with zero bytes; read fails past the end.        *)

StoreWrite(s, off, bytes) ==
    [k \in 1..Max(Len(s), off + Len(bytes)) |->
        IF k > off /\ k <= off + Len(bytes) THEN bytes[k - off]
        ELSE IF k <= Len(s) THEN s[k] ELSE 0]

StoreRead(s, off, len) ==
    IF off + len > Len(s) THEN Err("io")
    ELSE Ok([k \in 1..len |-> s[off + k]])

----------------------------------------------------------------------------
(* Region headers (sleep_parser): 32 bytes, magic 05 02 57 <type>,         *)
(* version 0, entry size (u16, big endian), name length, name, zero fill.  *)

SleepHeader(type, sizeHi, sizeLo, name) ==
    LET head == <<5, 2, 87, type, 0, sizeHi, sizeLo, Len(name)>> \o name
    IN  head \o Zeros(32 - Len(head))

create_bitfield == SleepHeader(0, 13, 0, <<>>)

create_signatures == SleepHeader(1, 0, 64, <<69, 100, 50, 53, 53, 49, 57>>)

create_tree == SleepHeader(2, 0, 40, <<66, 76, 65, 75, 69, 50, 98>>)

----------------------------------------------------------------------------
(* Flat-tree indexing (flat_tree): leaves are the even indices, a parent   *)
(* lies between its two children.                                          *)

RECURSIVE Depth(_)
Depth(i) == IF i % 2 = 0 THEN 0 ELSE 1 + Depth(i \div 2)

Parent(i) ==
    LET d == Depth(i)
        off == i \div (2 ^ (d + 1))
    IN  (1 + 2 * (off \div 2)) * (2 ^ (d + 1)) - 1

\* full_roots(i, &mut roots): the largest power-of-two subtrees first
RECURSIVE FullRootsFrom(_, _)
FullRootsFrom(tmp, offset) ==
    IF tmp = 0 THEN <<>>
    ELSE LET factor == CHOOSE f \in {2 ^ k : k \in 0..tmp} :
                           f <= tmp /\ 2 * f > tmp
         IN  <<offset + factor - 1>> \o FullRootsFrom(tmp - factor, offset + 2 * factor)

FullRoots(i) == FullRootsFrom(i \div 2, 0)

----------------------------------------------------------------------------
(* Node: index, length, hash.  The record of a node is its 32-byte hash    *)
(* followed by its length as a big-endian u64.                             *)

RECURSIVE ShiftRightBytes(_, _)
ShiftRightBytes(n, k) == IF k = 0 THEN n ELSE ShiftRightBytes(n \div 256, k - 1)

EncodeU64(n) == [k \in 1..8 |-> ShiftRightBytes(n, 8 - k) % 256]

RECURSIVE DecodeBE(_)
DecodeBE(b) ==
    IF b = <<>> THEN 0
    ELSE DecodeBE(SubSeq(b, 1, Len(b) - 1)) * 256 + b[Len(b)]

NodeToVec(node) == node.hash \o EncodeU64(node.length)

NodeFromVec(index, buf) ==
    IF Len(buf) # NodeSize THEN Err("decode")
    ELSE Ok([hash |-> SubSeq(buf, 1, HashSize),
             length |-> DecodeBE(SubSeq(buf, HashSize + 1, NodeSize)),
             index |-> index])

\* the digest of a block: a stand-in for BLAKE2b that depends on every byte
LeafHash(bytes) ==
    [k \in 1..HashSize |->
        IF k = 1 THEN 1 + Len(bytes)
        ELSE IF k - 1 <= Len(bytes) THEN 1 + bytes[k - 1]
        ELSE 0]

\* the digest of a parent: depends on both children's hashes and lengths
ParentHash(left, right) ==
    [k \in 1..HashSize |->
        IF k = 1 THEN 128 + ((left.length + right.length) % 128)
        ELSE (left.hash[k - 1] + 3 * right.hash[k - 1] + k) % 256]

----------------------------------------------------------------------------
(* The Merkle accumulator (crypto::Merkle): roots are the pending roots,   *)
(* blocks the number of leaves consumed.                                   *)

MerkleNew == [blocks |-> 0, roots |-> <<>>]

\* combine the top two roots while they are siblings; made collects the
\* nodes created by this call
RECURSIVE MerkleCombine(_, _)
MerkleCombine(roots, made) ==
    LET n == Len(roots)
    IN  IF n < 2 THEN [roots |-> roots, nodes |-> made]
        ELSE LET left == roots[n - 1]
                 right == roots[n]
             IN  IF Parent(left.index) # Parent(right.index)
                 THEN [roots |-> roots, nodes |-> made]
                 ELSE LET p == [hash |-> ParentHash(left, right),
                                length |-> left.length + right.length,
                                index |-> Parent(left.index)]
                      IN  MerkleCombine(Append(SubSeq(roots, 1, n - 2), p), Append(made, p))

MerkleNext(m, bytes) ==
    LET leaf == [hash |-> LeafHash(bytes), length |-> Len(bytes), index |-> 2 * m.blocks]
        c == MerkleCombine(Append(m.roots, leaf), <<leaf>>)
    IN  [merkle |-> [blocks |-> m.blocks + 1, roots |-> c.roots], nodes |-> c.nodes]

----------------------------------------------------------------------------
(* Storage (src/storage/mod.rs).  Every operation takes f, the number of   *)
(* the byte-store operation of this call that fails (0: none fails), and   *)
(* reports in ios how many byte-store operations it made.                  *)

\* find_node: the first node of the slice with this index
FindNode(ns, index) ==
    LET hits == {k \in 1..Len(ns) : ns[k].index = index}
    IN  IF hits = {} THEN Err("none")
        ELSE Ok(ns[CHOOSE k \in hits : \A h \in hits : k <= h])

\* get_node, the read failing when fail holds
GetNodeAt(t, index, fail) ==
    IF fail THEN Err("io")
    ELSE LET buf == StoreRead(t, HEADER_OFFSET + NodeSize * index, NodeSize)
         IN  IF ~buf.ok THEN buf ELSE NodeFromVec(index, buf.val)

OffsetResult(ok, offset, length, err, ios) ==
    [ok |-> ok, offset |-> offset, length |-> length, err |-> err, ios |-> ios]

\* the length of the block's own node: from the cached nodes, else the tree
BlockLength(t, blk, cached, offset, ios, f) ==
    LET c == FindNode(cached, blk)
    IN  IF c.ok THEN OffsetResult(TRUE, offset, c.val.length, "none", ios)
        ELSE LET node == GetNodeAt(t, blk, f = ios + 1)
             IN  IF node.ok
                 THEN OffsetResult(TRUE, offset, node.val.length, "none", ios + 1)
                 ELSE OffsetResult(FALSE, 0, 0, node.err, ios + 1)

\* the loop of data_offset over the full roots, from the j-th on
RECURSIVE RootsLoop(_, _, _, _, _, _, _, _)
RootsLoop(t, roots, j, offset, pending, blk, cached, f) ==
    IF j > Len(roots) THEN OffsetResult(FALSE, 0, 0, "panic", j - 1)
    ELSE LET node == GetNodeAt(t, roots[j], f = j)
         IN  IF ~node.ok THEN OffsetResult(FALSE, 0, 0, node.err, j)
             ELSE IF pending - 1 > 0
                  THEN RootsLoop(t, roots, j + 1, offset + node.val.length,
                                 pending - 1, blk, cached, f)
                  ELSE BlockLength(t, blk, cached, offset + node.val.length, j, f)

\* a data_offset whose count of pending roots starts one too high
DataOffsetPendingOff(t, index, cached, f) ==
    LET roots == FullRoots(2 * index)
        blk == 2 * index
    IN  IF Len(roots) = 0 THEN BlockLength(t, blk, cached, 0, 0, f)
        ELSE RootsLoop(t, roots, 1, 0, Len(roots) + 1, blk, cached, f)

\* data_offset(index, cached_nodes)
DataOffset(t, index, cached, f) ==
    LET roots == FullRoots(2 * index)
        blk == 2 * index
    IN  IF Len(roots) = 0 THEN BlockLength(t, blk, cached, 0, 0, f)
        ELSE RootsLoop(t, roots, 1, 0, Len(roots), blk, cached, f)

PutResult(ok, err, store, ios) ==
    [ok |-> ok, err |-> err, store |-> store, ios |-> ios]

\* a put_data that writes at the start of the Data region, not at the offset
PutDataAtZero(d, bytes, offset, f) ==
    IF ~offset.ok THEN PutResult(FALSE, offset.err, d, offset.ios)
    ELSE IF offset.length # Len(bytes) THEN PutResult(FALSE, "length", d, offset.ios)
    ELSE IF f = offset.ios + 1 THEN PutResult(FALSE, "io", d, offset.ios + 1)
    ELSE PutResult(TRUE, "none", StoreWrite(d, 0, bytes), offset.ios + 1)

\* a put_data without the length check
PutDataAtUnchecked(d, bytes, offset, f) ==
    IF ~offset.ok THEN PutResult(FALSE, offset.err, d, offset.ios)
    ELSE IF f = offset.ios + 1 THEN PutResult(FALSE, "io", d, offset.ios + 1)
    ELSE PutResult(TRUE, "none", StoreWrite(d, offset.offset, bytes), offset.ios + 1)

\* put_data once data_offset has answered: the length check and the write
PutDataAt(d, bytes, offset, f) ==
    IF ~offset.ok THEN PutResult(FALSE, offset.err, d, offset.ios)
    ELSE IF offset.length # Len(bytes) THEN PutResult(FALSE, "length", d, offset.ios)
    ELSE IF f = offset.ios + 1 THEN PutResult(FALSE, "io", d, offset.ios + 1)
    ELSE PutResult(TRUE, "none", StoreWrite(d, offset.offset, bytes), offset.ios + 1)

\* a put_data without the early return for empty data
PutDataNoEmptyCheck(d, t, index, bytes, cached, f) ==
    PutDataAt(d, bytes, DataOffset(t, index, cached, f), f)

\* put_data(index, data, nodes): nothing to do for empty data
PutData(d, t, index, bytes, cached, f) ==
    IF bytes = <<>> THEN PutResult(TRUE, "none", d, 0)
    ELSE PutDataAt(d, bytes, DataOffset(t, index, cached, f), f)

\* get_data once data_offset has answered: the read
GetDataAt(d, offset, f) ==
    IF ~offset.ok THEN Err(offset.err)
    ELSE IF f = offset.ios + 1 THEN Err("io")
    ELSE StoreRead(d, offset.offset, offset.length)

GetData(d, t, index, f) == GetDataAt(d, DataOffset(t, index, <<>>, f), f)

GetNode(t, index, f) == GetNodeAt(t, index, f = 1)

\* a put_node that leaves the header offset out
PutNodeNoHeader(t, node, fail) ==
    IF fail THEN PutResult(FALSE, "io", t, 1)
    ELSE PutResult(TRUE, "none", StoreWrite(t, NodeSize * node.index, NodeToVec(node)), 1)

PutNode(t, node, fail) ==
    IF fail THEN PutResult(FALSE, "io", t, 1)
    ELSE PutResult(TRUE, "none",
                   StoreWrite(t, HEADER_OFFSET + NodeSize * node.index, NodeToVec(node)), 1)

\* a put_signature that spaces its records by the size of a node record
PutSignatureNodeSize(s, index, signature, fail) ==
    IF fail THEN PutResult(FALSE, "io", s, 1)
    ELSE PutResult(TRUE, "none",
                   StoreWrite(s, HEADER_OFFSET + NodeSize * index, signature), 1)

PutSignature(s, index, signature, fail) ==
    IF fail THEN PutResult(FALSE, "io", s, 1)
    ELSE PutResult(TRUE, "none",
                   StoreWrite(s, HEADER_OFFSET + SigSize * index, signature), 1)

PutBitfield(b, offset, bytes, fail) ==
    IF fail THEN PutResult(FALSE, "io", b, 1)
    ELSE PutResult(TRUE, "none", StoreWrite(b, HEADER_OFFSET + offset, bytes), 1)

----------------------------------------------------------------------------
(* Feed (src/lib.rs).                                                      *)

\* a Feed::append that leaves empty blocks out of the accumulator
MerkleStepSkipEmpty(bytes) ==
    IF bytes = <<>> THEN [merkle |-> merkle, nodes |-> <<>>]
    ELSE MerkleNext(merkle, bytes)

\* a Feed::append that starts from a new accumulator on every call
MerkleStepFresh(bytes) == MerkleNext(MerkleNew, bytes)

\* let nodes = self.merkle.next(data)
MerkleStep(bytes) == MerkleNext(merkle, bytes)

\* a Feed::append that hands put_data the index before byte_length
PutDataIndexBefore == Max(byte_length - 1, 0)

\* let off = self.byte_length + offset, the index handed to put_data
PutDataIndex == byte_length + 0

\* a put_node loop that writes the nodes last created first
RECURSIVE PutNodesLastFirst(_, _, _, _)
PutNodesLastFirst(t, ns, ios, f) ==
    IF ns = <<>> THEN PutResult(TRUE, "none", t, ios)
    ELSE LET w == PutNode(t, ns[Len(ns)], f = ios + 1)
         IN  IF ~w.ok THEN PutResult(FALSE, w.err, t, ios + 1)
             ELSE PutNodesLastFirst(w.store, SubSeq(ns, 1, Len(ns) - 1), ios + 1, f)

\* for mut node in nodes { self.storage.put_node(&mut node)? }
RECURSIVE PutNodes(_, _, _, _)
PutNodes(t, ns, ios, f) ==
    IF ns = <<>> THEN PutResult(TRUE, "none", t, ios)
    ELSE LET w == PutNode(t, ns[1], f = ios + 1)
         IN  IF ~w.ok THEN PutResult(FALSE, w.err, t, ios + 1)
             ELSE PutNodes(w.store, Tail(ns), ios + 1, f)

\* how one Feed::append ends: m is what merkle.next returned, pd what
\* put_data did, pn what the put_node loop did
AppendOutcome(m, index, pd, pn) ==
    [merkle |-> m.merkle,
     nodes |-> m.nodes,
     index |-> index,
     data |-> pd.store,
     tree |-> IF pd.ok THEN pn.store ELSE tree,
     done |-> pd.ok /\ pn.ok,
     err |-> IF ~pd.ok THEN pd.err ELSE IF ~pn.ok THEN pn.err ELSE "unimplemented",
     ios |-> IF pd.ok THEN pn.ios ELSE pd.ios,
     written |-> IF pd.ok THEN pn.ios - pd.ios - (IF pn.ok THEN 0 ELSE 1) ELSE 0]

AppendNodes(m, index, pd, f) ==
    AppendOutcome(m, index, pd, PutNodes(tree, m.nodes, pd.ios, f))

AppendData(bytes, m, index, f) ==
    AppendNodes(m, index, PutData(data, tree, index, bytes, m.nodes, f), f)

\* the whole of Feed::append for one block, the f-th byte-store operation
\* failing: what it leaves in the regions and how it ends
AppendRun(bytes, f) == AppendData(bytes, MerkleStep(bytes), PutDataIndex, f)

\* a block of n bytes, each of them tag
BlockOf(n, tag) == [k \in 1..n |-> tag]

\* the blocks the k-th Feed::append may be given: any length, the bytes
\* telling the blocks apart
Blocks(k) == {BlockOf(n, k) : n \in 0..MaxLen}

Regions == {"tree", "data", "bitfield", "signatures"}

Last(op, index, bytes, res, fault) ==
    [bytes |-> bytes, index |-> index, op |-> op, res |-> res, fault |-> fault]

\* Feed::default(): a Storage over fresh stores (the three headers written),
\* a fresh accumulator, byte_length 0
Init ==
    /\ tree = StoreWrite(<<>>, 0, create_tree)
    /\ data = <<>>
    /\ bitfield = StoreWrite(<<>>, 0, create_bitfield)
    /\ signatures = StoreWrite(<<>>, 0, create_signatures)
    /\ opened = TRUE
    /\ merkle = MerkleNew
    /\ nodes = <<>>
    /\ byte_length = 0
    /\ blocks = <<>>
    /\ committed = 0
    /\ faulted = FALSE
    /\ hdrWrites = [r \in Regions |-> IF r = "data" THEN 0 ELSE 1]
    /\ ops = 0
    /\ last = Last("new", 0, <<>>, Ok(<<>>), 0)

\* Feed::append(data), any one of its byte-store operations failing, or
\* none: it ends in an error, or at unimplemented!() once byte_length has been
\* advanced
FeedAppendEnd(bytes, f, run) ==
    /\ merkle' = run.merkle
    /\ nodes' = run.nodes
    /\ data' = run.data
    /\ tree' = run.tree
    /\ byte_length' = IF run.done THEN byte_length + Len(bytes) ELSE byte_length
    /\ blocks' = Append(blocks, bytes)
    /\ committed' = IF run.done THEN committed + 1 ELSE committed
    /\ faulted' = (faulted \/ f # 0)
    /\ last' = Last("append", run.index, bytes, Err(run.err), f)
    /\ UNCHANGED <<bitfield, signatures, opened, hdrWrites, ops>>

FeedAppend(bytes) ==
    /\ Len(blocks) < MaxBlocks
    /\ \E f \in 0..AppendRun(bytes, 0).ios : FeedAppendEnd(bytes, f, AppendRun(bytes, f))

\* Feed::get(index): unimplemented!(), whatever the index and the feed hold
FeedGet(index) ==
    /\ last' = Last("get", index, <<>>, Err("unimplemented"), 0)
    /\ UNCHANGED <<tree, data, bitfield, signatures, opened, merkle, nodes,
                   byte_length, blocks, committed, faulted, hdrWrites, ops>>

Next ==
    \/ \E bytes \in Blocks(Len(blocks) + 1) : FeedAppend(bytes)
    \/ \E index \in 0..MaxBlocks : FeedGet(index)

Spec == Init /\ [][Next]_vars

----------------------------------------------------------------------------
(* The Storage API called directly (SpecStorage), on a Storage constructed *)
(* over fresh stores; Storage::new may be run again over the same stores.  *)

\* a Storage::new whose stores are created anew: what they held is lost
WriteHeaderTruncating(store, header, fail) ==
    IF fail THEN PutResult(FALSE, "io", store, 1)
    ELSE PutResult(TRUE, "none", header, 1)

\* a header write of Storage::new: the header bytes at offset 0
WriteHeader(store, header, fail) ==
    IF fail THEN PutResult(FALSE, "io", store, 1)
    ELSE PutResult(TRUE, "none", StoreWrite(store, 0, header), 1)

\* Storage::new: the bitfield, signatures and tree headers, in this order,
\* stopping at the first failed write
NewOutcome(b, s, t) ==
    [bitfield |-> b.store,
     signatures |-> IF b.ok THEN s.store ELSE signatures,
     tree |-> IF b.ok /\ s.ok THEN t.store ELSE tree,
     ok |-> b.ok /\ s.ok /\ t.ok,
     written |-> [r \in Regions |->
                    IF r = "bitfield" THEN (IF b.ok THEN 1 ELSE 0)
                    ELSE IF r = "signatures" THEN (IF b.ok /\ s.ok THEN 1 ELSE 0)
                    ELSE IF r = "tree" THEN (IF b.ok /\ s.ok /\ t.ok THEN 1 ELSE 0)
                    ELSE 0]]

NewRun(f) ==
    NewOutcome(WriteHeader(bitfield, create_bitfield, f = 1),
               WriteHeader(signatures, create_signatures, f = 2),
               WriteHeader(tree, create_tree, f = 3))

\* a Storage just constructed over fresh stores: the three headers written
InitStorage ==
    /\ tree = StoreWrite(<<>>, 0, create_tree)
    /\ data = <<>>
    /\ bitfield = StoreWrite(<<>>, 0, create_bitfield)
    /\ signatures = StoreWrite(<<>>, 0, create_signatures)
    /\ opened = TRUE
    /\ merkle = MerkleNew
    /\ nodes = <<>>
    /\ byte_length = 0
    /\ blocks = <<>>
    /\ committed = 0
    /\ faulted = FALSE
    /\ hdrWrites = [r \in Regions |-> IF r = "data" THEN 0 ELSE 1]
    /\ ops = 0
    /\ last = Last("new", 0, <<>>, Ok(<<>>), 0)

\* what every direct Storage call does to the history, and leaves alone
Called ==
    /\ ops < MaxOps
    /\ ops' = ops + 1
    /\ UNCHANGED <<merkle, byte_length, blocks, committed, faulted>>

StorageNewEnd(f, run) ==
    /\ bitfield' = run.bitfield
    /\ signatures' = run.signatures
    /\ tree' = run.tree
    /\ opened' = run.ok
    /\ hdrWrites' = [r \in Regions |-> hdrWrites[r] + run.written[r]]
    /\ last' = Last("new", 0, <<>>, IF run.ok THEN Ok(<<>>) ELSE Err("io"), f)
    /\ UNCHANGED <<data, nodes>>

\* Storage::new run again over the same stores
StorageNew(f) ==
    /\ Called
    /\ StorageNewEnd(f, NewRun(f))

\* the node indices and block indices the calls are given
\* the lengths of the blocks and nodes the calls are given: empty, one
\* byte, the longest
InputLens == {0, 1, MaxLen}

NodeIndices == {0, 1, 2}

BlockIndices == {0, 1}

\* the nodes put_node is given: any index and length, the hash telling the
\* nodes apart
NodeOf(index, length) ==
    [hash |-> LeafHash(<<index, length>>), length |-> length, index |-> index]

NodeInputs == {NodeOf(i, n) : i \in NodeIndices, n \in InputLens}

\* the slices of recent nodes put_data(index, bytes, ..) is given: none, or
\* the leaf of the block, its length that of the bytes or another
CachedInputs(index, bytes) ==
    {<<>>} \cup {<<NodeOf(2 * index, n)>> : n \in {Len(bytes), (Len(bytes) + 1) % (MaxLen + 1)}}

\* the blocks put_data(index, ..) is given
BlockInputs(index) == {BlockOf(n, index + 1) : n \in InputLens}

Signatures == {[k \in 1..SigSize |-> 7]}

StoragePutNodeEnd(node, f, w) ==
    /\ tree' = w.store
    /\ nodes' = <<node>>
    /\ last' = Last("put_node", node.index, <<>>, IF w.ok THEN Ok(<<>>) ELSE Err(w.err), f)
    /\ UNCHANGED <<data, bitfield, signatures, opened, hdrWrites>>

StoragePutNode(node, f) ==
    /\ Called
    /\ opened
    /\ f <= 1
    /\ StoragePutNodeEnd(node, f, PutNode(tree, node, f = 1))

StorageGetNode(index, f) ==
    /\ Called
    /\ opened
    /\ f <= 1
    /\ last' = Last("get_node", index, <<>>, GetNode(tree, index, f), f)
    /\ UNCHANGED <<tree, data, bitfield, signatures, opened, nodes, hdrWrites>>

StoragePutDataEnd(index, bytes, cached, f, w) ==
    /\ data' = w.store
    /\ nodes' = cached
    /\ last' = Last("put_data", index, bytes, IF w.ok THEN Ok(<<>>) ELSE Err(w.err), f)
    /\ UNCHANGED <<tree, bitfield, signatures, opened, hdrWrites>>

\* put_data(index, bytes, cached), any one of its byte-store operations
\* failing, or none
StoragePutData(index, bytes, cached) ==
    /\ Called
    /\ opened
    /\ \E f \in 0..PutData(data, tree, index, bytes, cached, 0).ios :
          StoragePutDataEnd(index, bytes, cached, f,
                            PutData(data, tree, index, bytes, cached, f))

StorageGetData(index) ==
    /\ Called
    /\ opened
    /\ \E f \in 0..(DataOffset(tree, index, <<>>, 0).ios + 1) :
          last' = Last("get_data", index, <<>>, GetData(data, tree, index, f), f)
    /\ UNCHANGED <<tree, data, bitfield, signatures, opened, nodes, hdrWrites>>

\* the slices of recent nodes data_offset(index, ..) is given: none, the
\* leaf of the block, or the leaf and every full root before it
OffsetInputs(index) ==
    {<<>>, <<NodeOf(2 * index, 1)>>,
     [k \in 1..Len(FullRoots(2 * index)) |-> NodeOf(FullRoots(2 * index)[k], 1)]
        \o <<NodeOf(2 * index, 1)>>}

\* what data_offset returns to its caller
OffsetOutcome(w) == IF w.ok THEN Ok(<<w.offset, w.length>>) ELSE Err(w.err)

\* data_offset(index, cached), any one of its reads failing, or none
StorageDataOffset(index, cached) ==
    /\ Called
    /\ opened
    /\ \E f \in 0..DataOffset(tree, index, cached, 0).ios :
          last' = Last("data_offset", index, <<>>,
                       OffsetOutcome(DataOffset(tree, index, cached, f)), f)
    /\ nodes' = cached
    /\ UNCHANGED <<tree, data, bitfield, signatures, opened, hdrWrites>>

StoragePutSignatureEnd(index, f, w) ==
    /\ signatures' = w.store
    /\ last' = Last("put_signature", index, <<>>, IF w.ok THEN Ok(<<>>) ELSE Err(w.err), f)
    /\ UNCHANGED <<tree, data, bitfield, opened, nodes, hdrWrites>>

StoragePutSignature(index, signature, f) ==
    /\ Called
    /\ opened
    /\ f <= 1
    /\ StoragePutSignatureEnd(index, f, PutSignature(signatures, index, signature, f = 1))

StoragePutBitfieldEnd(offset, bytes, f, w) ==
    /\ bitfield' = w.store
    /\ last' = Last("put_bitfield", offset, bytes, IF w.ok THEN Ok(<<>>) ELSE Err(w.err), f)
    /\ UNCHANGED <<tree, data, signatures, opened, nodes, hdrWrites>>

StoragePutBitfield(offset, bytes, f) ==
    /\ Called
    /\ opened
    /\ f <= 1
    /\ StoragePutBitfieldEnd(offset, bytes, f, PutBitfield(bitfield, offset, bytes, f = 1))

NextStorage ==
    \/ \E f \in 0..3 : StorageNew(f)
    \/ \E node \in NodeInputs, f \in 0..1 : StoragePutNode(node, f)
    \/ \E index \in NodeIndices, f \in 0..1 : StorageGetNode(index, f)
    \/ \E index \in BlockIndices :
          \E bytes \in BlockInputs(index) : \E cached \in CachedInputs(index, bytes) :
             StoragePutData(index, bytes, cached)
    \/ \E index \in BlockIndices : StorageGetData(index)
    \/ \E index \in BlockIndices : \E cached \in OffsetInputs(index) :
          StorageDataOffset(index, cached)
    \/ \E index \in BlockIndices, signature \in Signatures, f \in 0..1 :
          StoragePutSignature(index, signature, f)
    \/ \E offset \in 0..1, f \in 0..1 : StoragePutBitfield(offset, <<9>>, f)

SpecStorage == InitStorage /\ [][NextStorage]_vars

----------------------------------------------------------------------------
(* Properties of Feed::append, checked under Spec.                         *)

\* total length of the first k blocks handed to Feed::append
SumLens(k) == SumSeq([j \in 1..k |-> Len(blocks[j])])

RootIndices(roots) == [k \in 1..Len(roots) |-> roots[k].index]

\* the number of appends that had advanced byte_length when the last
\* append was called
CommittedBefore == committed - (IF last.res.err = "unimplemented" THEN 1 ELSE 0)

NonEmptyBlocks == \A j \in 1..Len(blocks) : blocks[j] # <<>>

\* C1 (as claimed): after block i has gone through Feed::append, all blocks
\* non-empty and no byte-store operation having failed, data_offset(i, nodes) is
\* the sum of the lengths of the blocks before it and the length of block i, and
\* offset + length is byte_length.
C1_OffsetCorrectness ==
    (last.op = "append" /\ ~faulted /\ NonEmptyBlocks) =>
        LET i == Len(blocks) - 1
            off == DataOffset(tree, i, nodes, 0)
        IN  /\ off.ok
            /\ off.offset = SumLens(i)
            /\ off.length = Len(blocks[i + 1])
            /\ off.offset + off.length = byte_length

\* C3 (as claimed): an append either advances byte_length, having written the
\* data and every node, or leaves the Data region, the Tree region and
\* byte_length as they were.
C3_AppendAtomic ==
    [][Len(blocks') = Len(blocks) + 1 =>
          \/ committed' = committed + 1
          \/ (data' = data /\ tree' = tree /\ byte_length' = byte_length)]_vars

\* C4 (as claimed): on the k-th append of non-empty blocks, all k earlier ones
\* having advanced byte_length, put_data is handed the block index k.
C4_PutDataIndex ==
    (last.op = "append" /\ NonEmptyBlocks /\ CommittedBefore = Len(blocks) - 1) =>
        last.index = Len(blocks) - 1

\* C5: after n calls of merkle.next (one per Feed::append call) the indices
\* of the pending roots are full_roots(2n).
C5_RootsAgree == RootIndices(merkle.roots) = FullRoots(2 * Len(blocks))

C5_Witness == Len(blocks) = 3 /\ RootIndices(merkle.roots) = <<1, 4>>

\* C7 (as claimed): get_data of a block index at or beyond the number of
\* committed blocks fails; it never returns bytes.
C7_GetBeyondCommitted ==
    NonEmptyBlocks => \A i \in committed..(MaxBlocks + 1) : ~GetData(data, tree, i, 0).ok

----------------------------------------------------------------------------
(* Properties of the Storage API, checked under SpecStorage.               *)

\* the node whose length put_data takes for the block: the cached one, else
\* the record of the Tree region
Recorded(t, cached, blk) ==
    IF FindNode(cached, blk).ok THEN FindNode(cached, blk) ELSE GetNode(t, blk, 0)

PutDataDone == last.op = "put_data" /\ last.res.ok /\ last.bytes # <<>>

\* C2 (as claimed): a put_data(i, bytes, nodes) of non-empty bytes that
\* succeeded is followed by a get_data(i) that returns bytes, for any nodes.
C2_DataRoundTrip ==
    PutDataDone => GetData(data, tree, last.index, 0) = Ok(last.bytes)

\* C2 (amended): ... provided nodes holds no node 2*i, or the Tree region
\* records node 2*i with the length of the cached one.
C2_DataRoundTripFlushed ==
    (/\ PutDataDone
     /\ \/ ~FindNode(nodes, 2 * last.index).ok
        \/ /\ GetNode(tree, 2 * last.index, 0).ok
           /\ GetNode(tree, 2 * last.index, 0).val.length
                 = FindNode(nodes, 2 * last.index).val.length)
    => GetData(data, tree, last.index, 0) = Ok(last.bytes)

C2_Witness ==
    /\ PutDataDone
    /\ last.index = 1
    /\ nodes = <<>>
    /\ DataOffset(tree, 1, <<>>, 0).offset > 0
    /\ GetData(data, tree, 1, 0) = Ok(last.bytes)

\* a step that is a put_data of non-empty bytes whose length differs from
\* the length recorded for node 2*i
PutDataMismatchStep ==
    /\ ops' = ops + 1
    /\ last'.op = "put_data"
    /\ last'.bytes # <<>>
    /\ Recorded(tree, nodes', 2 * last'.index).ok
    /\ Recorded(tree, nodes', 2 * last'.index).val.length # Len(last'.bytes)

\* C6 (as claimed): such a put_data, no byte-store operation failing, returns
\* the length-mismatch error and leaves the Data region unchanged.
C6_LengthMismatch ==
    [][(PutDataMismatchStep /\ last'.fault = 0) =>
          (last'.res.err = "length" /\ data' = data)]_vars

\* C6 (amended): such a put_data returns an error and leaves the Data region
\* unchanged; the error is the length-mismatch error exactly when data_offset
\* succeeded, and else the error data_offset failed with.
C6_MismatchRejected ==
    [][PutDataMismatchStep =>
          /\ ~last'.res.ok
          /\ data' = data
          /\ (last'.res.err = "length")
                = DataOffset(tree, last'.index, nodes', last'.fault).ok]_vars

C6_Witness ==
    /\ last.op = "put_data"
    /\ last.index = 1
    /\ last.bytes # <<>>
    /\ last.res.err = "length"
    /\ data # <<>>

\* C8: a put_node(n) that succeeded is followed by a get_node(n.index) that
\* returns n: index, length and hash.
C8_NodeRoundTrip ==
    (last.op = "put_node" /\ last.res.ok) =>
        GetNode(tree, nodes[1].index, 0) = Ok(nodes[1])

C8_Witness ==
    /\ last.op = "put_node"
    /\ last.res.ok
    /\ nodes[1].index = 1
    /\ nodes[1].length = MaxLen
    /\ ops = 3
    /\ Len(tree) = HEADER_OFFSET + 3 * NodeSize

\* C9 (as claimed): the header of the Tree, Signatures and Bitfield regions
\* is written exactly once; constructing Storage again writes none.
C9_HeaderOnce == \A r \in Regions \ {"data"} : hdrWrites[r] = 1

\* C10: constructing Storage again over the same stores leaves every region
\* byte for byte as it was, whether or not the construction succeeds.
C10_ReopenKeepsBytes ==
    [][(ops' = ops + 1 /\ last'.op = "new") =>
          (/\ tree' = tree
           /\ data' = data
           /\ bitfield' = bitfield
           /\ signatures' = signatures)]_vars

C10_Witness ==
    /\ last.op = "new"
    /\ last.res.ok
    /\ hdrWrites["tree"] = 2
    /\ Len(tree) > HEADER_OFFSET
    /\ Len(signatures) > HEADER_OFFSET

----------------------------------------------------------------------------
(* Properties of Feed::get and of the end of Feed::append, under Spec.     *)

\* what Feed::get is to return: absence at or beyond the block count, else
\* the bytes Storage::get_data has for the block
FeedGetExpected(index) ==
    IF index >= committed THEN Err("absent") ELSE GetData(data, tree, index, 0)

\* C11 (as claimed): Feed::get(index) returns absence when index is at or
\* beyond the block count, else the bytes of get_data(index); it never aborts.
C11_FeedGet ==
    last.op = "get" =>
        (last.res.err # "unimplemented" /\ last.res = FeedGetExpected(last.index))

\* C12 (as claimed): an append whose accumulator step, put_data and every
\* put_node succeeded returns success and leaves byte_length greater by
\* data.len().
C12_AppendReturns ==
    [][committed' = committed + 1 =>
          (last'.res.ok /\ byte_length' = byte_length + Len(last'.bytes))]_vars

\* the 40 bytes of node record i of a Tree region
NodeRecord(t, i) == StoreRead(t, HEADER_OFFSET + NodeSize * i, NodeSize)

\* record i has been written: it lies in the region and is not a zero-filled
\* gap (the first byte of every hash is positive)
NodeWritten(t, i) == NodeRecord(t, i).ok /\ NodeRecord(t, i).val # Zeros(NodeSize)

\* C14: over any sequence of Feed::append calls every put_node targets a
\* record that was never written, and a written record keeps its bytes.
C14_NodesAppendOnly ==
    [][/\ Len(blocks') = Len(blocks) + 1 =>
             \A k \in 1..Len(nodes') : ~NodeWritten(tree, nodes'[k].index)
       /\ \A i \in 0..(2 * MaxBlocks) :
             NodeWritten(tree, i) => NodeRecord(tree', i) = NodeRecord(tree, i)]_vars

C14_Witness ==
    /\ last.op = "append"
    /\ Len(blocks) = 3
    /\ committed = 3
    /\ \A i \in {0, 1, 2, 4} : NodeWritten(tree, i)
    /\ ~NodeWritten(tree, 3)

\* the Tree region t holds exactly the first k nodes of ns: the others are
\* beyond its end or a zero-filled gap
FirstWritten(t, ns, k) ==
    /\ \A j \in 1..k : NodeRecord(t, ns[j].index).val = NodeToVec(ns[j])
    /\ \A j \in (k + 1)..Len(ns) : ~NodeWritten(t, ns[j].index)

\* C15: inside one append the data is written before any node, the nodes
\* are written in creation order, and byte_length is advanced only after all
\* of these writes succeeded; an append that stopped early leaves byte_length.
C15_WriteOrder ==
    [][Len(blocks') = Len(blocks) + 1 =>
          /\ \E k \in 0..Len(nodes') : FirstWritten(tree', nodes', k)
          /\ tree' # tree =>
                /\ PutData(data, tree, last'.index, last'.bytes, nodes', 0).ok
                /\ data' = PutData(data, tree, last'.index, last'.bytes, nodes', 0).store
          /\ last'.res.err # "unimplemented" => byte_length' = byte_length
          /\ last'.res.err = "unimplemented" =>
                /\ FirstWritten(tree', nodes', Len(nodes'))
                /\ byte_length' = byte_length + Len(last'.bytes)]_vars

C15_Witness ==
    /\ last.op = "append"
    /\ last.res.err = "io"
    /\ last.bytes # <<>>
    /\ Len(nodes) = 2
    /\ NodeWritten(tree, nodes[1].index)
    /\ ~NodeWritten(tree, nodes[2].index)
    /\ Len(data) = byte_length + Len(last.bytes)

\* C17 (as claimed): after any sequence of Feed::append calls, failed ones
\* included, the accumulator has consumed as many blocks as the feed counts
\* as committed.
C17_AccumulatorRollback == merkle.blocks = committed

\* C18: data_offset never reaches the panic after its loop: for every block
\* index, every recent nodes and every Tree region an append sequence leaves,
\* with any read failing or none, it returns a DataOffset or a read error.
C18_NoPanic ==
    /\ last.res.err # "panic"
    /\ \A index \in 0..(MaxBlocks + 1) :
          \A cached \in {<<>>, nodes, <<NodeOf(2 * index, 1)>>} :
             \A f \in 0..(Len(FullRoots(2 * index)) + 1) :
                DataOffset(tree, index, cached, f).err # "panic"

C18_Witness ==
    /\ FullRoots(6) = <<1, 4>>
    /\ DataOffset(tree, 3, <<NodeOf(6, 1)>>, 0).ok
    /\ DataOffset(tree, 3, <<NodeOf(6, 1)>>, 0).offset = 3
    /\ DataOffset(tree, 3, <<>>, 0).err = "io"

\* block j lies where the blocks before it end and get_data(j) returns it
BlockKept(j) ==
    /\ DataOffset(tree, j, <<>>, 0).ok
    /\ DataOffset(tree, j, <<>>, 0).offset = SumLens(j)
    /\ DataOffset(tree, j, <<>>, 0).length = Len(blocks[j + 1])
    /\ GetData(data, tree, j, 0).ok
    /\ GetData(data, tree, j, 0).val = blocks[j + 1]

----------------------------------------------------------------------------
(* Further properties of the Storage API, under SpecStorage.               *)

\* C13: put_data with empty bytes returns success, performs no byte-store
\* operation (no read of the Tree region, no write of the Data region) and
\* leaves every region as it was, for any index and any nodes.
C13_PutEmptyNoOp ==
    [][(ops' = ops + 1 /\ last'.op = "put_data" /\ last'.bytes = <<>>) =>
          /\ last'.res.ok
          /\ PutData(data, tree, last'.index, <<>>, nodes', last'.fault).ios = 0
          /\ data' = data
          /\ tree' = tree
          /\ bitfield' = bitfield
          /\ signatures' = signatures]_vars

C13_Witness ==
    /\ last.op = "put_data"
    /\ last.bytes = <<>>
    /\ last.res.ok
    /\ last.index = 1
    /\ nodes # <<>>
    /\ nodes[1].length # 0
    /\ ~GetNode(tree, 0, 0).ok
    /\ data # <<>>

\* store s2 is store s1 but for the bytes [lo, hi): the bytes s1 had are
\* kept, and what s2 has beyond the end of s1 and before lo is zero fill
SameOutside(s1, s2, lo, hi) ==
    /\ Len(s2) >= Len(s1)
    /\ Len(s2) <= Max(Len(s1), hi)
    /\ \A k \in 1..Len(s1) : (k <= lo \/ k > hi) => s2[k] = s1[k]
    /\ \A k \in (Len(s1) + 1)..Len(s2) : k <= lo => s2[k] = 0

\* C19: put_node(n) changes only bytes [32 + 40*n.index, 32 + 40*n.index + 40)
\* of the Tree region and put_signature(i, s) only bytes [32 + 64*i,
\* 32 + 64*i + 64) of the Signatures region: get_node of every other written
\* record returns what it did, the headers are kept and no other region is
\* touched.
C19_RecordsApart ==
    [][ops' = ops + 1 =>
          /\ last'.op = "put_node" =>
                /\ SameOutside(tree, tree', HEADER_OFFSET + NodeSize * last'.index,
                               HEADER_OFFSET + NodeSize * last'.index + NodeSize)
                /\ \A m \in NodeIndices \ {last'.index} :
                      NodeWritten(tree, m) =>
                         GetNode(tree', m, 0).val = GetNode(tree, m, 0).val
                /\ SubSeq(tree', 1, HEADER_OFFSET) = create_tree
                /\ UNCHANGED <<data, bitfield, signatures>>
          /\ last'.op = "put_signature" =>
                /\ SameOutside(signatures, signatures', HEADER_OFFSET + SigSize * last'.index,
                               HEADER_OFFSET + SigSize * last'.index + SigSize)
                /\ SubSeq(signatures', 1, HEADER_OFFSET) = create_signatures
                /\ UNCHANGED <<data, bitfield, tree>>]_vars

C19_Witness ==
    /\ last.op = "put_node"
    /\ last.res.ok
    /\ last.index = 1
    /\ NodeWritten(tree, 0)
    /\ NodeWritten(tree, 1)
    /\ Len(signatures) = HEADER_OFFSET + 2 * SigSize

\* the offset and length data_offset is to return when every length is
\* taken from the recent nodes first and from the Tree region otherwise
PreferredOffset(t, index, cached) ==
    LET roots == FullRoots(2 * index)
    IN  IF /\ \A k \in 1..Len(roots) : Recorded(t, cached, roots[k]).ok
           /\ Recorded(t, cached, 2 * index).ok
        THEN Ok(<<SumSeq([k \in 1..Len(roots) |-> Recorded(t, cached, roots[k]).val.length]),
                  Recorded(t, cached, 2 * index).val.length>>)
        ELSE Err("io")

\* C16 (as claimed): data_offset(i, recent_nodes), no read failing, takes the
\* length of every full root and of node 2*i from recent_nodes when the node
\* is there, and from the Tree region only when it is not.
C16_CachePreferred ==
    (last.op = "data_offset" /\ last.fault = 0) =>
        /\ last.res.ok = PreferredOffset(tree, last.index, nodes).ok
        /\ last.res.val = PreferredOffset(tree, last.index, nodes).val

====
